---- MODULE Spec2Model ----
(***************************************************************************)
(* oztoolz: the temporary folders manager of ioutils and the temporary     *)
(* file / folder manipulators of fstools, over a model of the host file    *)
(* system.                                                                 *)
(*                                                                         *)
(* A path is the sequence of its pathlib parts: an absolute path starts    *)
(* with the anchor "/", a relative path does not, and <<>> is ".".         *)
(* The disk maps the key of an absolute path to the kind of entry found    *)
(* there.  The host either distinguishes letter case in names (POSIX) or   *)
(* does not (Windows); the code runs on both and compares paths after      *)
(* folding their case on both.                                             *)
(***************************************************************************)
EXTENDS Naturals, Sequences, FiniteSets

(* ---------------- bounds of the exploration ---------------- *)

\* how many get_folder / track_file calls one behaviour makes
MaxCalls == 2
\* how many steps the code running inside the scope takes on the disk
MaxUser == 1
\* how many characters a file name has at most
MaxName == 5
\* how many folders a manager tracks when its cleanup is looked at alone
MaxFolders == 3

(* ---------------- the paths the callers pass ---------------- *)

Root == <<"/">>
\* os.getcwd()
Cwd == <<"/", "w">>

\* the relative paths handed to the operations; "A" is a case variant of "a"
ReqPaths ==
    { <<"a">>, <<"A">>, <<"a", "b">>, <<"A", "b">> }

\* str.lower() / str.upper() on one path part
LowerName(n) == CASE n = "A" -> "a" [] n = "B" -> "b" [] n = "W" -> "w" [] OTHER -> n
UpperName(n) == CASE n = "a" -> "A" [] n = "b" -> "B" [] n = "w" -> "W" [] OTHER -> n
Lower(p) == [i \in 1..Len(p) |-> LowerName(p[i])]
Upper(p) == [i \in 1..Len(p) |-> UpperName(p[i])]

IsAbs(p) == Len(p) > 0 /\ p[1] = "/"
HasDotDot(p) == \E i \in 1..Len(p) : p[i] = ".."
\* os.path.normpath of an absolute path: a ".." takes the part before it
\* away, and stands for the anchor itself right after the anchor
RECURSIVE normpath(_, _)
normpath(done, rest) ==
    IF rest = <<>> THEN done
    ELSE IF Head(rest) # ".." THEN normpath(Append(done, Head(rest)), Tail(rest))
    ELSE IF Len(done) > 1 THEN normpath(SubSeq(done, 1, Len(done) - 1), Tail(rest))
    ELSE normpath(done, Tail(rest))
\* os.path.abspath of a path without "..": a relative path is joined to the
\* working directory
AbsPath(p) == IF IsAbs(p) THEN p ELSE Cwd \o p
\* os.path.abspath of a path that may hold "..": the joined path is normalized
NormAbsPath(p) == IF HasDotDot(p) THEN normpath(<<>>, AbsPath(p)) ELSE AbsPath(p)
\* pathlib's Path.parent: the anchor and "." are their own parent
Parent(p) == IF p = Root \/ p = <<>> THEN p ELSE SubSeq(p, 1, Len(p) - 1)
\* list(Path.parents) of an absolute path: nearest parent first, the anchor last
Parents(p) == [i \in 1..(Len(p) - 1) |-> SubSeq(p, 1, Len(p) - i)]
Reverse(s) == [i \in 1..Len(s) |-> s[Len(s) + 1 - i]]
Range(s) == { s[i] : i \in 1..Len(s) }

IsStrictPrefix(t, k) == Len(t) < Len(k) /\ SubSeq(k, 1, Len(t)) = t

AbsReqPaths == { AbsPath(p) : p \in ReqPaths }
Kinds == {"absent", "dir", "file"}

VARIABLES
    caseSensitive,   \* the host's file system distinguishes letter case
    disk,            \* key of an absolute path -> kind of the entry there
    folders,         \* TemporaryFoldersManager.__folders (absolute paths of the handles)
    files,           \* TemporaryFoldersManager.__files
    force_remove,    \* TemporaryFoldersManager.__force_remove
    pc,              \* "idle", or "cleanup" while cleanup's removal loop runs
    cleanup_queue,   \* cleanup's local cleanup_queue
    cleanup_idx,     \* how many entries of cleanup_queue the loop has removed
    cleanup_force,   \* cleanup's force_remove argument
    last,            \* the operation that ran last and how it ended
    made,            \* history: the folders the manager made and has not removed
    reached,         \* history: keys of the folders get_folder found on disk
    requested,       \* history: the paths passed to calls that returned
    start_clean,     \* history: the disk held tracked content only when cleanup began
    cleaned,         \* history: a cleanup has begun
    handle,          \* the temporary File/FolderManipulator of the open scope
    nCalls,
    nUser

vars == <<caseSensitive, disk, folders, files, force_remove, pc, cleanup_queue,
          cleanup_idx, cleanup_force, last, made, reached,
          requested, start_clean, cleaned, handle, nCalls, nUser>>

(* ---------------- the host file system ---------------- *)

\* the entry a path names: names that differ in case only are one entry
\* on a host that ignores case
Key(p) == IF caseSensitive THEN AbsPath(p) ELSE Lower(AbsPath(p))
DiskKeys == AbsReqPaths \cup { Lower(p) : p \in AbsReqPaths }

\* Path.exists / is_dir / is_file of a path without ".."; the anchor and the
\* working directory are there
KindOf(d, p) ==
    IF AbsPath(p) \in {Root, Cwd} THEN "dir"
    ELSE IF Key(p) \in DOMAIN d THEN d[Key(p)] ELSE "absent"
Exists(d, p) == KindOf(d, p) # "absent"
IsDir(d, p) == KindOf(d, p) = "dir"
IsFile(d, p) == KindOf(d, p) = "file"

\* the entries below the entry with key k
Below(d, k) == { c \in DOMAIN d : d[c] # "absent" /\ IsStrictPrefix(k, c) }

\* every primitive answers [disk, err]: err is "none" or the exception raised
\* Path.mkdir(): FileNotFoundError, NotADirectoryError, FileExistsError are OSError
mkdir(d, p) ==
    IF ~IsDir(d, Parent(AbsPath(p))) \/ Exists(d, p)
    THEN [disk |-> d, err |-> "OSError"]
    ELSE [disk |-> [d EXCEPT ![Key(p)] = "dir"], err |-> "none"]

\* Path.touch(): creates an empty file, leaves an existing entry alone
touch(d, p) ==
    IF Exists(d, p) THEN [disk |-> d, err |-> "none"]
    ELSE IF ~IsDir(d, Parent(AbsPath(p)))
    THEN [disk |-> d, err |-> "OSError"]
    ELSE [disk |-> [d EXCEPT ![Key(p)] = "file"], err |-> "none"]

\* Path.unlink()
unlink(d, p) ==
    IF ~IsFile(d, p) THEN [disk |-> d, err |-> "OSError"]
    ELSE [disk |-> [d EXCEPT ![Key(p)] = "absent"], err |-> "none"]

\* Path.rmdir(): the directory must be there and empty
rmdir(d, p) ==
    IF ~IsDir(d, p) \/ Below(d, Key(p)) # {}
    THEN [disk |-> d, err |-> "OSError"]
    ELSE [disk |-> [d EXCEPT ![Key(p)] = "absent"], err |-> "none"]

\* shutil.rmtree(): the directory must be there; it goes with all below it
rmtree(d, p) ==
    IF ~IsDir(d, p)
    THEN [disk |-> d, err |-> "OSError"]
    ELSE [disk |-> [k \in DOMAIN d |->
                      IF k = Key(p) \/ IsStrictPrefix(Key(p), k) THEN "absent" ELSE d[k]],
          err |-> "none"]

(* ---------------- ioutils: path comparison ---------------- *)

\* compare_paths: equal absolute paths, letter case ignored
compare_paths(first, second) == Lower(AbsPath(first)) = Lower(AbsPath(second))

\* fault: an is_subfolder that matches the parents of the parent only, not
\* the parent itself
is_subfolder_siblings(subfolder_path, parent_path) ==
    LET subfolder_parents == Reverse(Parents(AbsPath(subfolder_path)))
        parent_parents == Reverse(Parents(AbsPath(parent_path)))
    IN  IF Len(subfolder_parents) < Len(parent_parents) THEN FALSE
        ELSE \A i \in 1..Len(parent_parents) :
                compare_paths(parent_parents[i], subfolder_parents[i])

\* is_subfolder: the parent and its own parents, outermost first, are matched
\* against the parents of the sub-folder
is_subfolder(subfolder_path, parent_path) ==
    LET subfolder_parents == Reverse(Parents(AbsPath(subfolder_path)))
        parent_parents == Reverse(<<AbsPath(parent_path)>> \o Parents(AbsPath(parent_path)))
    IN  IF Len(subfolder_parents) < Len(parent_parents) THEN FALSE
        ELSE \A i \in 1..Len(parent_parents) :
                compare_paths(parent_parents[i], subfolder_parents[i])

(* ---------------- ioutils: TemporaryFoldersManager ---------------- *)

Min(S) == CHOOSE x \in S : \A y \in S : x <= y
RemoveAt(s, i) == [k \in 1..(Len(s) - 1) |-> IF k < i THEN s[k] ELSE s[k + 1]]

\* The manager's operations work on a record st of the fields they read and
\* write: disk, folders, files, the histories made and reached, and their
\* outcome: err ("none" or the exception that leaves the call) and ret.
Raise(st, e) == [st EXCEPT !.err = e]

RECURSIVE get_folder(_, _), ManagedTemporaryFolder(_, _)

\* ManagedTemporaryFolder.__init__: asks the manager for a missing parent, then
\* makes the folder when it is missing
ManagedTemporaryFolder(st, path) ==
    LET abs == AbsPath(path)
        s1  == IF ~Exists(st.disk, Parent(abs)) THEN get_folder(st, Parent(abs)) ELSE st
    IN  IF s1.err # "none" THEN s1
        ELSE IF ~Exists(s1.disk, abs)
        THEN LET m == mkdir(s1.disk, abs)
             IN  IF m.err # "none" THEN Raise(s1, m.err)
                 ELSE [s1 EXCEPT !.disk = m.disk, !.made = @ \cup {abs}, !.ret = abs]
        ELSE [s1 EXCEPT !.ret = abs]

\* fault: get_folder that also registers the folders it finds on disk
get_folder_registers_found(st, folder_path) ==
    LET folder_abs_path == AbsPath(folder_path)
        found == { i \in 1..Len(st.folders) : Upper(st.folders[i]) = Upper(folder_abs_path) }
    IN  IF found # {} THEN [st EXCEPT !.ret = st.folders[Min(found)]]
        ELSE IF Exists(st.disk, folder_path) /\ ~IsDir(st.disk, folder_path)
        THEN Raise(st, "ValueError")
        ELSE LET result == ManagedTemporaryFolder(
                     IF Exists(st.disk, folder_path)
                     THEN [st EXCEPT !.reached = @ \cup {Key(folder_abs_path)}]
                     ELSE st, folder_path)
             IN  IF result.err # "none" THEN result
                 ELSE [result EXCEPT !.folders = Append(@, folder_abs_path),
                                     !.ret = folder_abs_path]

\* fault: get_folder that looks the path up without folding its case
get_folder_exact_case(st, folder_path) ==
    LET folder_abs_path == AbsPath(folder_path)
        found == { i \in 1..Len(st.folders) : st.folders[i] = folder_abs_path }
    IN  IF found # {} THEN [st EXCEPT !.ret = st.folders[Min(found)]]
        ELSE IF Exists(st.disk, folder_path)
        THEN IF ~IsDir(st.disk, folder_path) THEN Raise(st, "ValueError")
             ELSE ManagedTemporaryFolder(
                      [st EXCEPT !.reached = @ \cup {Key(folder_abs_path)}], folder_path)
        ELSE LET result == ManagedTemporaryFolder(st, folder_path)
             IN  IF result.err # "none" THEN result
                 ELSE [result EXCEPT !.folders = Append(@, folder_abs_path),
                                     !.ret = folder_abs_path]

\* TemporaryFoldersManager.get_folder
get_folder(st, folder_path) ==
    LET folder_abs_path == AbsPath(folder_path)
        found == { i \in 1..Len(st.folders) : Upper(st.folders[i]) = Upper(folder_abs_path) }
    IN  IF found # {} THEN [st EXCEPT !.ret = st.folders[Min(found)]]
        ELSE IF Exists(st.disk, folder_path)
        THEN IF ~IsDir(st.disk, folder_path) THEN Raise(st, "ValueError")
             ELSE ManagedTemporaryFolder(
                      [st EXCEPT !.reached = @ \cup {Key(folder_abs_path)}], folder_path)
        ELSE LET result == ManagedTemporaryFolder(st, folder_path)
             IN  IF result.err # "none" THEN result
                 ELSE [result EXCEPT !.folders = Append(@, folder_abs_path),
                                     !.ret = folder_abs_path]

\* TemporaryFoldersManager.track_file
track_file(st, file_path) ==
    IF \E i \in 1..Len(st.files) : compare_paths(file_path, st.files[i]) THEN st
    ELSE LET s1 == get_folder(st, Parent(file_path))
         IN  IF s1.err # "none" THEN s1
             ELSE LET t == IF ~Exists(s1.disk, file_path) THEN touch(s1.disk, file_path)
                           ELSE [disk |-> s1.disk, err |-> "none"]
                  IN  IF t.err # "none" THEN Raise(s1, t.err)
                      ELSE [s1 EXCEPT !.disk = t.disk,
                                      !.files = Append(@, AbsPath(file_path)),
                                      !.ret = <<>>]

\* TemporaryFoldersManager.is_temporary
is_temporary(d, fo, fi, path) ==
    IF ~Exists(d, path) THEN FALSE
    ELSE LET ref_paths == IF IsFile(d, path) THEN fi ELSE fo
         IN  \E i \in 1..Len(ref_paths) : compare_paths(ref_paths[i], path)

\* fault: a cleanup that leaves the tracked files on disk
UnlinkFiles_keeps(d, fi) == d

\* cleanup, the loop over __files: every tracked file still there is unlinked
RECURSIVE UnlinkFiles(_, _)
UnlinkFiles(d, fi) ==
    IF fi = <<>> THEN d
    ELSE UnlinkFiles(IF Exists(d, Head(fi)) /\ IsFile(d, Head(fi))
                     THEN unlink(d, Head(fi)).disk ELSE d,
                     Tail(fi))

\* fault: an ordering loop that takes the folders as they were registered
NotParent_first(sorting_queue) == IF sorting_queue = <<>> THEN 0 ELSE 1

\* cleanup, one round of the ordering loop: the first folder of the sorting
\* queue that has no other folder of the queue inside it
NotParent(sorting_queue) ==
    LET is_not_parent == { i \in 1..Len(sorting_queue) :
            \A j \in 1..Len(sorting_queue) :
                i = j \/ ~is_subfolder(sorting_queue[j], sorting_queue[i]) }
    IN  IF is_not_parent = {} THEN 0 ELSE Min(is_not_parent)

\* cleanup, the ordering loop; ok is FALSE when its assertion fails
RECURSIVE SortFolders(_, _)
SortFolders(sorting_queue, queue) ==
    IF sorting_queue = <<>> THEN [queue |-> queue, ok |-> TRUE]
    ELSE LET not_parent == NotParent(sorting_queue)
         IN  IF not_parent = 0 THEN [queue |-> queue, ok |-> FALSE]
             ELSE SortFolders(RemoveAt(sorting_queue, not_parent),
                              Append(queue, sorting_queue[not_parent]))

\* fault: a removal loop that does not look at force_remove
RemoveFolder_rmdir(d, force, path) == rmdir(d, path)

\* cleanup, the body of the removal loop for one folder
RemoveFolder(d, force, path) == IF ~force THEN rmdir(d, path) ELSE rmtree(d, path)

(* ---------------- the state machine of the manager ---------------- *)

\* no manipulator: what a with statement holds before temp() has answered
NoHandle == [kind |-> "none", path |-> <<>>, norm |-> <<>>, temp |-> FALSE,
             open |-> FALSE]
Outcome(op, arg, err, ret, flag) ==
    [op |-> op, arg |-> arg, err |-> err, ret |-> ret, flag |-> flag]

St == [disk |-> disk, folders |-> folders, files |-> files, made |-> made,
       reached |-> reached, err |-> "none", ret |-> <<>>]

\* some tracked folder / tracked file has the key k
TrackedFolderKey(fo, k) == \E i \in 1..Len(fo) : Key(fo[i]) = k
TrackedFileKey(fi, k) == \E i \in 1..Len(fi) : Key(fi[i]) = k

\* every tracked folder is on disk and holds tracked folders and tracked
\* regular files only
OnlyTrackedContent(d, fo, fi) ==
    /\ \A i \in 1..Len(fo) : IsDir(d, fo[i])
    /\ \A i \in 1..Len(fo) : \A c \in Below(d, Key(fo[i])) :
          \/ d[c] = "dir" /\ TrackedFolderKey(fo, c)
          \/ d[c] = "file" /\ TrackedFileKey(fi, c)

\* TemporaryFoldersManager(): nothing tracked, force_remove off, an empty
\* working directory on either kind of host
Init ==
    /\ caseSensitive \in BOOLEAN
    /\ disk = [k \in DiskKeys |-> "absent"]
    /\ folders = <<>>
    /\ files = <<>>
    /\ force_remove = FALSE
    /\ pc = "idle"
    /\ cleanup_queue = <<>>
    /\ cleanup_idx = 0
    /\ cleanup_force = FALSE
    /\ last = Outcome("init", <<>>, "none", <<>>, FALSE)
    /\ made = {}
    /\ reached = {}
    /\ requested = {}
    /\ start_clean = FALSE
    /\ cleaned = FALSE
    /\ handle = NoHandle
    /\ nCalls = 0
    /\ nUser = 0

\* manager.get_folder(p)
GetFolder(p) ==
    /\ pc = "idle"
    /\ nCalls < MaxCalls
    /\ LET r == get_folder(St, p)
           tracked == \E i \in 1..Len(folders) : Upper(folders[i]) = Upper(AbsPath(p))
       IN  /\ disk' = r.disk
           /\ folders' = r.folders
           /\ made' = r.made
           /\ reached' = r.reached
           /\ requested' = IF r.err = "none" THEN requested \cup {p} ELSE requested
           /\ last' = Outcome("get_folder", p, r.err, r.ret, tracked)
    /\ nCalls' = nCalls + 1
    /\ UNCHANGED <<caseSensitive, files, force_remove, pc, cleanup_queue, cleanup_idx,
                   cleanup_force, start_clean, cleaned, handle, nUser>>

\* manager.track_file(p)
TrackFile(p) ==
    /\ pc = "idle"
    /\ nCalls < MaxCalls
    /\ LET r == track_file(St, p)
           tracked == \E i \in 1..Len(files) : compare_paths(p, files[i])
       IN  /\ disk' = r.disk
           /\ folders' = r.folders
           /\ files' = r.files
           /\ made' = r.made
           /\ reached' = r.reached
           /\ requested' = IF r.err = "none" THEN requested \cup {p} ELSE requested
           /\ last' = Outcome("track_file", p, r.err, <<>>, tracked)
    /\ nCalls' = nCalls + 1
    /\ UNCHANGED <<caseSensitive, force_remove, pc, cleanup_queue, cleanup_idx,
                   cleanup_force, start_clean, cleaned, handle, nUser>>

\* manager.set_force_remove(v) with v the other value of the flag
SetForceRemove ==
    /\ pc = "idle"
    /\ force_remove' = ~force_remove
    /\ UNCHANGED <<caseSensitive, disk, folders, files, pc, cleanup_queue, cleanup_idx,
                   cleanup_force, last, made, reached, requested, start_clean,
                   cleaned, handle, nCalls, nUser>>

\* cleanup up to its removal loop: the tracked files are unlinked, __files is
\* emptied and the removal queue is computed
CleanupBegin(force) ==
    /\ pc = "idle"
    /\ LET s == SortFolders(folders, <<>>)
       IN  /\ disk' = UnlinkFiles(disk, files)
           /\ files' = <<>>
           /\ cleanup_queue' = s.queue
           /\ cleanup_idx' = 0
           /\ pc' = IF s.ok /\ s.queue # <<>> THEN "cleanup" ELSE "idle"
           /\ last' = Outcome("cleanup_begin", <<>>,
                              IF s.ok THEN "none" ELSE "AssertionError", <<>>, FALSE)
    /\ cleanup_force' = force
    /\ start_clean' = OnlyTrackedContent(disk, folders, files)
    /\ cleaned' = TRUE
    /\ UNCHANGED <<caseSensitive, folders, force_remove, made, reached, requested,
                   handle, nCalls, nUser>>

\* manager.cleanup(force)
Cleanup(force) == CleanupBegin(force)

\* manager.__exit__: cleanup(self.__force_remove); an OSError or ValueError
\* that leaves the cleanup is written to stderr
ScopeExit == CleanupBegin(force_remove)

\* cleanup, one round of its removal loop; an exception ends the cleanup
CleanupRemove ==
    /\ pc = "cleanup"
    /\ LET path == cleanup_queue[cleanup_idx + 1]
           r == RemoveFolder(disk, cleanup_force, path)
           untracked == \E c \in Below(disk, Key(path)) : ~TrackedFolderKey(folders, c)
       IN  /\ disk' = r.disk
           /\ made' = { m \in made : ~(IsDir(disk, m) /\ ~IsDir(r.disk, m)) }
           /\ cleanup_idx' = IF r.err = "none" THEN cleanup_idx + 1 ELSE cleanup_idx
           /\ pc' = IF r.err = "none" /\ cleanup_idx + 1 < Len(cleanup_queue)
                    THEN "cleanup" ELSE "idle"
           /\ last' = Outcome("cleanup_remove", path, r.err, <<>>, untracked)
    /\ UNCHANGED <<caseSensitive, folders, files, force_remove, cleanup_queue,
                   cleanup_force, reached, requested, start_clean,
                   cleaned, handle, nCalls, nUser>>

\* the code inside the scope works on the disk behind the manager's back
UserStep(d) ==
    /\ pc = "idle"
    /\ nUser < MaxUser
    /\ disk' = d
    /\ reached' = { k \in reached : IsDir(d, k) }
    /\ last' = Outcome("user", <<>>, "none", <<>>, FALSE)
    /\ nUser' = nUser + 1
    /\ UNCHANGED <<caseSensitive, folders, files, force_remove, pc, cleanup_queue,
                   cleanup_idx, cleanup_force, made, requested, start_clean,
                   cleaned, handle, nCalls>>

UserMkdir(p) == mkdir(disk, p).err = "none" /\ UserStep(mkdir(disk, p).disk)
UserTouch(p) == ~Exists(disk, p) /\ touch(disk, p).err = "none" /\ UserStep(touch(disk, p).disk)
UserRemove(p) ==
    \/ IsDir(disk, p) /\ UserStep(rmtree(disk, p).disk)
    \/ IsFile(disk, p) /\ UserStep(unlink(disk, p).disk)

Next ==
    \/ \E p \in ReqPaths : GetFolder(p)
    \/ \E p \in ReqPaths : TrackFile(p)
    \/ SetForceRemove
    \/ \E force \in BOOLEAN : Cleanup(force)
    \/ ScopeExit
    \/ CleanupRemove
    \/ \E p \in ReqPaths : UserMkdir(p)
    \/ \E p \in ReqPaths : UserTouch(p)
    \/ \E p \in ReqPaths : UserRemove(p)

Spec == Init /\ [][Next]_vars

(* ---------------- the state machine of a cleanup ---------------- *)

\* the folders a manager may track: nested up to three deep, side by side,
\* and with upper-case letters
SortPaths ==
    { Cwd \o p : p \in { <<"a">>, <<"A">>, <<"b">>, <<"a", "b">>, <<"A", "b">>,
                         <<"a", "b", "a">> } }
SortKeys == SortPaths \cup { Lower(p) : p \in SortPaths }

\* the lists get_folder can build: no two entries equal up to letter case, in
\* any order
TrackedLists ==
    { fo \in UNION { [1..n -> SortPaths] : n \in 0..MaxFolders } :
        \A i, j \in 1..Len(fo) : i # j => Upper(fo[i]) # Upper(fo[j]) }

\* a manager that tracks the folders of one such list, all of them on disk
InitSort ==
    /\ caseSensitive \in BOOLEAN
    /\ folders \in TrackedLists
    /\ disk = [k \in SortKeys |->
                 IF \E i \in 1..Len(folders) :
                       Key(folders[i]) = k \/ IsStrictPrefix(k, Key(folders[i]))
                 THEN "dir" ELSE "absent"]
    /\ files = <<>>
    /\ force_remove = FALSE
    /\ pc = "idle"
    /\ cleanup_queue = <<>>
    /\ cleanup_idx = 0
    /\ cleanup_force = FALSE
    /\ last = Outcome("init", <<>>, "none", <<>>, FALSE)
    /\ made = Range(folders)
    /\ reached = {}
    /\ requested = {}
    /\ start_clean = FALSE
    /\ cleaned = FALSE
    /\ handle = NoHandle
    /\ nCalls = 0
    /\ nUser = 0

\* one cleanup of the manager
NextSort ==
    \/ \E force \in BOOLEAN : ~cleaned /\ Cleanup(force)
    \/ CleanupRemove

SpecSort == InitSort /\ [][NextSort]_vars

(* ---------------- fstools: the temporary manipulators ---------------- *)

\* Path.exists of a path that may hold "..": the host follows a ".." only out
\* of a folder
PathExists(d, p) ==
    IF ~HasDotDot(p) THEN Exists(d, p)
    ELSE /\ \A i \in 1..Len(p) :
               p[i] = ".." => IsDir(d, NormAbsPath(SubSeq(p, 1, i - 1)))
         /\ Exists(d, NormAbsPath(p))

\* PathManipulator.__init__: the path must exist; the normalized path is the
\* absolute path in lower case
PathManipulator(d, path, kind) ==
    IF ~PathExists(d, path) THEN [err |-> "EFailedToInitialize", handle |-> NoHandle]
    ELSE [err |-> "none",
          handle |-> [kind |-> kind, path |-> path, norm |-> Lower(NormAbsPath(path)),
                      temp |-> FALSE, open |-> TRUE]]

\* PathManipulator.exists: os.path.exists of the normalized path
exists(d, h) == Exists(d, h.norm)

\* FileManipulator.make_temporary / FolderManipulator.make_temporary
make_temporary(h) == [h EXCEPT !.temp = TRUE]

\* The expression "removing " + self.target + "..." of the remove methods:
\* target is defined as a plain method, so self.target is the bound method and
\* the concatenation of a str and a method raises TypeError
LogTarget == "TypeError"

\* FileManipulator.temp: answers [disk, err, handle]; an OSError of touch is
\* caught and the exception object built for it is not raised, so that the
\* call returns None
FileManipulator_temp(d, path) ==
    IF ~Exists(d, Parent(path))
    THEN [disk |-> d, err |-> "EFailedToInitialize", handle |-> NoHandle]
    ELSE LET t == IF ~Exists(d, path) THEN touch(d, path)
                  ELSE [disk |-> d, err |-> "none"]
         IN  IF t.err # "none" THEN [disk |-> d, err |-> "none", handle |-> NoHandle]
             ELSE LET m == PathManipulator(t.disk, path, "file")
                  IN  [disk |-> t.disk, err |-> m.err,
                       handle |-> IF m.err = "none" THEN make_temporary(m.handle)
                                  ELSE NoHandle]

\* FolderManipulator.temp: works on the absolute path
FolderManipulator_temp(d, path) ==
    LET full_path == AbsPath(path)
    IN  IF ~Exists(d, Parent(full_path))
        THEN [disk |-> d, err |-> "EFailedToInitialize", handle |-> NoHandle]
        ELSE LET t == IF ~Exists(d, full_path) THEN mkdir(d, full_path)
                      ELSE [disk |-> d, err |-> "none"]
             IN  IF t.err # "none"
                 THEN [disk |-> d, err |-> "EFailedToInitialize", handle |-> NoHandle]
                 ELSE LET m == PathManipulator(t.disk, full_path, "folder")
                      IN  [disk |-> t.disk, err |-> m.err,
                           handle |-> IF m.err = "none" THEN make_temporary(m.handle)
                                      ELSE NoHandle]

\* FileManipulator.remove: answers [disk, err]
FileManipulator_remove(d, h) ==
    IF ~exists(d, h) THEN [disk |-> d, err |-> "EFailedToManipulate"]
    ELSE IF LogTarget # "none" THEN [disk |-> d, err |-> LogTarget]
    ELSE LET u == unlink(d, h.path)
         IN  IF u.err # "none" THEN [disk |-> d, err |-> "EFailedToManipulate"] ELSE u

\* FolderManipulator.remove: after the content has been removed the method
\* calls itself again, without end
FolderManipulator_remove(d, h) ==
    IF ~exists(d, h) THEN [disk |-> d, err |-> "EFailedToManipulate"]
    ELSE IF LogTarget # "none" THEN [disk |-> d, err |-> LogTarget]
    ELSE [disk |-> [k \in DOMAIN d |->
                      IF IsStrictPrefix(Key(h.path), k) THEN "absent" ELSE d[k]],
          err |-> "RecursionError"]

\* FileManipulator.__exit__ / FolderManipulator.__exit__: a temporary
\* manipulator removes its path; EFailedToManipulate is written to stderr,
\* any other exception leaves the with statement
Manipulator_exit(d, h) ==
    IF ~h.temp THEN [disk |-> d, err |-> "none"]
    ELSE LET r == IF h.kind = "file" THEN FileManipulator_remove(d, h)
                  ELSE FolderManipulator_remove(d, h)
         IN  IF r.err = "EFailedToManipulate" THEN [disk |-> r.disk, err |-> "none"]
             ELSE r

(* ---------------- the state machine of a temporary manipulator ---------------- *)

\* with FileManipulator.temp(p) as handle: the flag of the outcome tells
\* whether p was on disk before
FileTemp(p) ==
    /\ pc = "idle" /\ handle.kind = "none" /\ last.op # "temp"
    /\ LET r == FileManipulator_temp(disk, p)
       IN  /\ disk' = r.disk
           /\ handle' = r.handle
           /\ last' = Outcome("temp", p, r.err, <<>>, Exists(disk, p))
    /\ UNCHANGED <<caseSensitive, folders, files, force_remove, pc, cleanup_queue,
                   cleanup_idx, cleanup_force, made, reached, requested, start_clean,
                   cleaned, nCalls, nUser>>

\* with FolderManipulator.temp(p) as handle
FolderTemp(p) ==
    /\ pc = "idle" /\ handle.kind = "none" /\ last.op # "temp"
    /\ LET r == FolderManipulator_temp(disk, p)
       IN  /\ disk' = r.disk
           /\ handle' = r.handle
           /\ last' = Outcome("temp", p, r.err, <<>>, Exists(disk, p))
    /\ UNCHANGED <<caseSensitive, folders, files, force_remove, pc, cleanup_queue,
                   cleanup_idx, cleanup_force, made, reached, requested, start_clean,
                   cleaned, nCalls, nUser>>

\* the with statement of the manipulator is left
HandleExit ==
    /\ pc = "idle" /\ handle.kind # "none" /\ handle.open
    /\ LET r == Manipulator_exit(disk, handle)
       IN  /\ disk' = r.disk
           /\ last' = Outcome("exit", handle.path, r.err, <<>>, Exists(disk, handle.path))
    /\ handle' = [handle EXCEPT !.open = FALSE]
    /\ UNCHANGED <<caseSensitive, folders, files, force_remove, pc, cleanup_queue,
                   cleanup_idx, cleanup_force, made, reached, requested, start_clean,
                   cleaned, nCalls, nUser>>

\* the code before and inside the with statement works on the disk; nothing
\* is done once the statement has been left
NextTemp ==
    \/ \E p \in ReqPaths : FileTemp(p)
    \/ \E p \in ReqPaths : FolderTemp(p)
    \/ HandleExit
    \/ \E p \in ReqPaths : last.op # "exit" /\ UserMkdir(p)
    \/ \E p \in ReqPaths : last.op # "exit" /\ UserTouch(p)
    \/ \E p \in ReqPaths : last.op # "exit" /\ UserRemove(p)

SpecTemp == Init /\ [][NextTemp]_vars

(* ---------------- fstools: creating and binding manipulators ---------------- *)

\* the path and the folders above it, the anchor and the working directory
\* left out
Chain(p) ==
    { SubSeq(AbsPath(p), 1, n) : n \in 1..Len(AbsPath(p)) } \ {Root, Cwd}

\* Path.mkdir(0o777, True, True): makes the missing folders down to the path;
\* a regular file on the way, or at the path, is NotADirectoryError or
\* FileExistsError
mkdir_parents(d, p) ==
    IF \E q \in Chain(p) : IsFile(d, q) THEN [disk |-> d, err |-> "OSError"]
    ELSE [disk |-> [k \in DOMAIN d |->
                      IF \E q \in Chain(p) : Key(q) = k THEN "dir" ELSE d[k]],
          err |-> "none"]

\* FileManipulator.create: answers [disk, err, handle]; the file itself is
\* never made, the manipulator is built over the path as it is
FileManipulator_create(d, path, force_create) ==
    LET parent_path == Parent(path)
    IN  IF ~Exists(d, parent_path) /\ ~force_create
        THEN [disk |-> d, err |-> "EFailedToInitialize", handle |-> NoHandle]
        ELSE LET m == IF ~Exists(d, parent_path) THEN mkdir_parents(d, parent_path)
                      ELSE [disk |-> d, err |-> "none"]
             IN  IF m.err # "none"
                 THEN [disk |-> m.disk, err |-> "EFailedToInitialize", handle |-> NoHandle]
                 ELSE LET h == PathManipulator(m.disk, path, "file")
                      IN  [disk |-> m.disk, err |-> h.err, handle |-> h.handle]

\* fault: a folder create that makes the missing parents without being asked
FolderManipulator_create_forced(d, path, force_create) ==
    LET m == mkdir_parents(d, AbsPath(path))
        h == PathManipulator(m.disk, AbsPath(path), "folder")
    IN  IF m.err # "none"
        THEN [disk |-> m.disk, err |-> "EFailedToInitialize", handle |-> NoHandle]
        ELSE [disk |-> m.disk, err |-> h.err, handle |-> h.handle]

\* FolderManipulator.create: works on the absolute path
FolderManipulator_create(d, path, force_create) ==
    LET full_path == AbsPath(path)
        parent_path == Parent(full_path)
    IN  IF ~Exists(d, parent_path) /\ ~force_create
        THEN [disk |-> d, err |-> "EFailedToInitialize", handle |-> NoHandle]
        ELSE LET m == mkdir_parents(d, full_path)
             IN  IF m.err # "none"
                 THEN [disk |-> m.disk, err |-> "EFailedToInitialize", handle |-> NoHandle]
                 ELSE LET h == PathManipulator(m.disk, full_path, "folder")
                      IN  [disk |-> m.disk, err |-> h.err, handle |-> h.handle]

(* ---------------- fstools: copy, move, remove, list ---------------- *)

\* PathManipulator.target(): the last part of the path
target(h) == IF h.path = <<>> THEN <<>> ELSE <<h.path[Len(h.path)]>>

\* the entry of the tree at `to` that stands where k stands in the tree at `from`
Moved(k, from, to) == Key(to) \o SubSeq(k, Len(Key(from)) + 1, Len(k))
\* the tree at `from` fits under `to` within the paths of the model
Fits(d, from, to) ==
    /\ Key(to) \in DOMAIN d
    /\ \A k \in Below(d, Key(from)) : Moved(k, from, to) \in DOMAIN d

\* where shutil.copy writes: into the destination when it is a folder
CopyTarget(d, src, dst) == IF IsDir(d, dst) THEN AbsPath(dst) \o <<src[Len(src)]>> ELSE AbsPath(dst)

\* shutil.copy(src, dst): the source must be a regular file, the place written
\* to must not be the source itself nor a folder, and its folder must be there
shutil_copy(d, src, dst) ==
    LET to == CopyTarget(d, src, dst)
    IN  IF \/ ~IsFile(d, src) \/ Key(to) = Key(src) \/ IsDir(d, to)
           \/ ~IsDir(d, Parent(to))
        THEN [disk |-> d, err |-> "OSError"]
        ELSE [disk |-> [d EXCEPT ![Key(to)] = "file"], err |-> "none"]

\* shutil.move(src, dst) to a destination that is not on disk: a rename of the
\* entry with all below it
shutil_move(d, src, dst) ==
    IF \/ ~Exists(d, src) \/ ~IsDir(d, Parent(AbsPath(dst)))
       \/ IsStrictPrefix(Key(src), Key(dst))
    THEN [disk |-> d, err |-> "OSError"]
    ELSE [disk |-> [k \in DOMAIN d |->
                      IF k = Key(dst) THEN d[Key(src)]
                      ELSE IF IsStrictPrefix(Key(dst), k)
                      THEN (IF Moved(k, dst, src) \in DOMAIN d
                            THEN d[Moved(k, dst, src)] ELSE "absent")
                      ELSE IF k = Key(src) \/ IsStrictPrefix(Key(src), k) THEN "absent"
                      ELSE d[k]],
          err |-> "none"]

\* PathManipulator.reset: binds the manipulator to another path that is on
\* disk; the pathlib object is replaced before the path is looked up, the
\* normalized path after, so that a failed reset leaves the new path with the
\* old normalized path
PathManipulator_reset(d, h, path) ==
    IF ~Exists(d, path)
    THEN [err |-> "EFailedToManipulate", handle |-> [h EXCEPT !.path = path]]
    ELSE [err |-> "none",
          handle |-> [h EXCEPT !.path = path, !.norm = Lower(AbsPath(path))]]

\* FileManipulator.reset: a temporary manipulator then removes the file it is
\* bound to now, FileManipulator(self).remove()
FileManipulator_reset(d, h, path) ==
    LET r == PathManipulator_reset(d, h, path)
    IN  IF r.err # "none" \/ ~h.temp THEN [disk |-> d, err |-> r.err, handle |-> r.handle]
        ELSE LET x == FileManipulator_remove(d, [r.handle EXCEPT !.path = r.handle.norm])
             IN  [disk |-> x.disk, err |-> x.err, handle |-> r.handle]

\* FolderManipulator.reset: a temporary manipulator removes the old folder,
\* FolderManipulator(old_path).remove()
FolderManipulator_reset(d, h, path) ==
    LET r == PathManipulator_reset(d, h, path)
    IN  IF r.err # "none" \/ ~h.temp THEN [disk |-> d, err |-> r.err, handle |-> r.handle]
        ELSE IF ~Exists(d, h.norm)
        THEN [disk |-> d, err |-> "EFailedToManipulate", handle |-> r.handle]
        ELSE LET x == FolderManipulator_remove(d, [h EXCEPT !.path = h.norm])
             IN  [disk |-> x.disk, err |-> x.err, handle |-> r.handle]

\* FileManipulator.copy: answers [disk, err, ret], ret the manipulator built
\* over the destination as it was passed
FileManipulator_copy(d, h, destination, overwrite) ==
    IF ~exists(d, h) THEN [disk |-> d, err |-> "EFailedToManipulate", ret |-> NoHandle]
    ELSE IF LogTarget # "none" THEN [disk |-> d, err |-> LogTarget, ret |-> NoHandle]
    ELSE IF Exists(d, destination) /\ ~overwrite
    THEN [disk |-> d, err |-> "EFailedToManipulate", ret |-> NoHandle]
    ELSE LET c == shutil_copy(d, h.norm, destination)
             m == PathManipulator(c.disk, destination, "file")
         IN  IF c.err # "none" \/ m.err # "none"
             THEN [disk |-> c.disk, err |-> "EFailedToManipulate", ret |-> NoHandle]
             ELSE [disk |-> c.disk, err |-> "none", ret |-> m.handle]

\* FileManipulator.move: answers [disk, err, handle]
FileManipulator_move(d, h, destination) ==
    IF ~exists(d, h) THEN [disk |-> d, err |-> "EFailedToManipulate", handle |-> h]
    ELSE IF LogTarget # "none" THEN [disk |-> d, err |-> LogTarget, handle |-> h]
    ELSE IF Exists(d, destination)
    THEN [disk |-> d, err |-> "EFailedToManipulate", handle |-> h]
    ELSE LET m == shutil_move(d, h.norm, destination)
         IN  IF m.err # "none"
             THEN [disk |-> d, err |-> "EFailedToManipulate", handle |-> h]
             ELSE FileManipulator_reset(m.disk, h, destination)

\* Path.iterdir(): the keys of the entries of the folder
iterdir(d, p) == { k \in Below(d, Key(p)) : Len(k) = Len(Key(p)) + 1 }

\* the orders in which the host may enumerate the entries S
Enumerations(S) ==
    { s \in [1..Cardinality(S) -> S] :
        \A i, j \in 1..Cardinality(S) : i # j => s[i] # s[j] }

\* fault: a list that answers the entries as the host enumerates them, the
\* folders not put first
FolderManipulator_list_unsorted(d, h, enum) ==
    IF ~exists(d, h) \/ ~IsDir(d, h.path)
    THEN [disk |-> d, err |-> "EFailedToManipulate", ret |-> <<>>]
    ELSE [disk |-> d, err |-> "none",
          ret |-> [i \in 1..Len(enum) |->
                     PathManipulator(d, h.path \o <<enum[i][Len(enum[i])]>>,
                                     IF d[enum[i]] = "dir" THEN "folder"
                                     ELSE "file").handle]]

\* FolderManipulator.list: enum is the order in which iterdir yields the
\* entries; the folders among them are answered first, then the rest, each as
\* a manipulator over the path of the folder joined with the entry's name
FolderManipulator_list(d, h, enum) ==
    IF ~exists(d, h) \/ ~IsDir(d, h.path)
    THEN [disk |-> d, err |-> "EFailedToManipulate", ret |-> <<>>]
    ELSE LET is_dir(k) == d[k] = "dir"
             is_other(k) == d[k] # "dir"
             directories == SelectSeq(enum, is_dir)
             others == SelectSeq(enum, is_other)
             children == directories \o others
         IN  [disk |-> d, err |-> "none",
              ret |-> [i \in 1..Len(children) |->
                         PathManipulator(d, h.path \o <<children[i][Len(children[i])]>>,
                                         IF is_dir(children[i]) THEN "folder"
                                         ELSE "file").handle]]

\* FolderManipulator.copy: the copy is made at destination/target with its
\* parents, then every entry of the folder is copied into it; overwrite is
\* not read: the folder is made with exist_ok, and the copies of the entries
\* get the log stream where their overwrite flag stands
FolderManipulator_copy(d, h, destination, overwrite) ==
    IF ~exists(d, h) THEN [disk |-> d, err |-> "EFailedToManipulate", ret |-> NoHandle]
    ELSE IF LogTarget # "none" THEN [disk |-> d, err |-> LogTarget, ret |-> NoHandle]
    ELSE LET to == AbsPath(destination) \o target(h)
             dir_copy == FolderManipulator_create(d, to, TRUE)
             l == FolderManipulator_list(dir_copy.disk, h,
                      CHOOSE s \in Enumerations(iterdir(dir_copy.disk, h.path)) : TRUE)
         IN  IF dir_copy.err # "none" \/ l.err # "none"
             THEN [disk |-> dir_copy.disk, err |-> "EFailedToManipulate", ret |-> NoHandle]
             ELSE [disk |-> [k \in DOMAIN d |->
                              IF IsStrictPrefix(Key(to), k) /\ Moved(k, to, h.path) \in DOMAIN d
                                    /\ dir_copy.disk[Moved(k, to, h.path)] # "absent"
                              THEN dir_copy.disk[Moved(k, to, h.path)]
                              ELSE dir_copy.disk[k]],
                   err |-> "none", ret |-> dir_copy.handle]

\* fault: a move that removes the folder with its content and makes an empty
\* folder at the destination
FolderManipulator_move_dropping(d, h, destination) ==
    IF ~exists(d, h) \/ ~IsDir(d, h.path) \/ Exists(d, destination)
    THEN [disk |-> d, err |-> "EFailedToManipulate", handle |-> h]
    ELSE LET moved == FolderManipulator_create(rmtree(d, h.path).disk, destination, TRUE)
         IN  [disk |-> moved.disk, err |-> moved.err,
              handle |-> IF moved.err = "none" THEN moved.handle ELSE h]

\* FolderManipulator.move: the destination is made, the entries of the folder
\* are moved into it, then the folder is removed and the manipulator reset
FolderManipulator_move(d, h, destination) ==
    IF ~exists(d, h) THEN [disk |-> d, err |-> "EFailedToManipulate", handle |-> h]
    ELSE IF LogTarget # "none" THEN [disk |-> d, err |-> LogTarget, handle |-> h]
    ELSE IF Exists(d, destination)
    THEN [disk |-> d, err |-> "EFailedToManipulate", handle |-> h]
    ELSE LET moved == FolderManipulator_create(d, destination, TRUE)
             l == FolderManipulator_list(moved.disk, h,
                      CHOOSE s \in Enumerations(iterdir(moved.disk, h.path)) : TRUE)
         IN  IF moved.err # "none" \/ l.err # "none"
             THEN [disk |-> moved.disk, err |-> "EFailedToManipulate", handle |-> h]
             ELSE LET d2 == [k \in DOMAIN d |->
                               IF IsStrictPrefix(Key(destination), k)
                               THEN (IF Moved(k, destination, h.path) \in DOMAIN d
                                     THEN moved.disk[Moved(k, destination, h.path)]
                                     ELSE "absent")
                               ELSE IF IsStrictPrefix(Key(h.path), k) THEN "absent"
                               ELSE moved.disk[k]]
                      r == FolderManipulator_remove(d2, h)
                  IN  IF r.err # "none" THEN [disk |-> r.disk, err |-> r.err, handle |-> h]
                      ELSE FolderManipulator_reset(r.disk, h, destination)

(* ---------------- the state machine of the manipulators ---------------- *)

\* the trees a caller stages before it works with manipulators: every entry
\* lies in a folder, and a host that ignores case holds one entry per name
StagedDisks ==
    { d \in [DiskKeys -> Kinds] :
        /\ \A k \in DiskKeys : d[k] # "absent" => IsDir(d, Parent(k))
        /\ ~caseSensitive => \A k \in DiskKeys : k # Lower(k) => d[k] = "absent" }

\* no manipulator yet, over a staged tree
InitOps ==
    /\ caseSensitive \in BOOLEAN
    /\ disk \in StagedDisks
    /\ folders = <<>>
    /\ files = <<>>
    /\ force_remove = FALSE
    /\ pc = "idle"
    /\ cleanup_queue = <<>>
    /\ cleanup_idx = 0
    /\ cleanup_force = FALSE
    /\ last = Outcome("init", <<>>, "none", <<>>, FALSE)
    /\ made = {}
    /\ reached = {}
    /\ requested = {}
    /\ start_clean = FALSE
    /\ cleaned = FALSE
    /\ handle = NoHandle
    /\ nCalls = 0
    /\ nUser = 0

\* one call of the manipulators' interface: r is what the call answers, h the
\* manipulator the caller holds afterwards
Call(op, arg, flag, r, h, ret) ==
    /\ disk' = r.disk
    /\ handle' = h
    /\ last' = Outcome(op, arg, r.err, ret, flag)
    /\ nCalls' = nCalls + 1
    /\ UNCHANGED <<caseSensitive, folders, files, force_remove, pc, cleanup_queue,
                   cleanup_idx, cleanup_force, made, reached, requested, start_clean,
                   cleaned, nUser>>

\* FileManipulator(p) / FolderManipulator(p)
Bind(p, kind) ==
    /\ nCalls < MaxCalls /\ handle.kind = "none"
    /\ LET r == PathManipulator(disk, p, kind)
       IN  Call("bind", p, FALSE, [disk |-> disk, err |-> r.err],
                IF r.err = "none" THEN r.handle ELSE handle, <<>>)

\* FileManipulator.create(p, force)
FileCreate(p, force) ==
    /\ nCalls < MaxCalls /\ handle.kind = "none"
    /\ LET r == FileManipulator_create(disk, p, force)
       IN  Call("file_create", p, force, r,
                IF r.err = "none" THEN r.handle ELSE handle, <<>>)

\* FolderManipulator.create(p, force)
FolderCreate(p, force) ==
    /\ nCalls < MaxCalls /\ handle.kind = "none"
    /\ LET r == FolderManipulator_create(disk, p, force)
       IN  Call("folder_create", p, force, r,
                IF r.err = "none" THEN r.handle ELSE handle, <<>>)

\* handle.copy(dst, overwrite) on a file manipulator
FileCopy(dst, overwrite) ==
    /\ nCalls < MaxCalls /\ handle.kind = "file"
    /\ Key(CopyTarget(disk, handle.norm, dst)) \in DOMAIN disk
    /\ LET r == FileManipulator_copy(disk, handle, dst, overwrite)
       IN  Call("copy", dst, overwrite, r, handle, r.ret.norm)

\* handle.move(dst) on a file manipulator
FileMove(dst) ==
    /\ nCalls < MaxCalls /\ handle.kind = "file"
    /\ LET r == FileManipulator_move(disk, handle, dst)
       IN  Call("move", dst, FALSE, r, r.handle, <<>>)

\* handle.remove() on a file manipulator
FileRemove ==
    /\ nCalls < MaxCalls /\ handle.kind = "file"
    /\ LET r == FileManipulator_remove(disk, handle)
       IN  Call("remove", <<>>, FALSE, r, handle, <<>>)

\* handle.copy(dst, overwrite) on a folder manipulator
FolderCopy(dst, overwrite) ==
    /\ nCalls < MaxCalls /\ handle.kind = "folder"
    /\ Fits(disk, handle.path, AbsPath(dst) \o target(handle))
    /\ LET r == FolderManipulator_copy(disk, handle, dst, overwrite)
       IN  Call("copy", dst, overwrite, r, handle, r.ret.norm)

\* handle.move(dst) on a folder manipulator
FolderMove(dst) ==
    /\ nCalls < MaxCalls /\ handle.kind = "folder"
    /\ Fits(disk, handle.path, dst)
    /\ LET r == FolderManipulator_move(disk, handle, dst)
       IN  Call("move", dst, FALSE, r, r.handle, <<>>)

\* handle.remove() on a folder manipulator
FolderRemove ==
    /\ nCalls < MaxCalls /\ handle.kind = "folder"
    /\ LET r == FolderManipulator_remove(disk, handle)
       IN  Call("remove", <<>>, FALSE, r, handle, <<>>)

\* handle.make_temporary()
MakeTemporary ==
    /\ handle.kind # "none" /\ ~handle.temp
    /\ handle' = make_temporary(handle)
    /\ last' = Outcome("make_temporary", <<>>, "none", <<>>, FALSE)
    /\ UNCHANGED <<caseSensitive, disk, folders, files, force_remove, pc, cleanup_queue,
                   cleanup_idx, cleanup_force, made, reached, requested, start_clean,
                   cleaned, nCalls, nUser>>

\* handle.reset(p)
Reset(p) ==
    /\ nCalls < MaxCalls /\ handle.kind # "none"
    /\ LET r == IF handle.kind = "file" THEN FileManipulator_reset(disk, handle, p)
                ELSE FolderManipulator_reset(disk, handle, p)
       IN  Call("reset", p, FALSE, r, r.handle, handle.norm)

\* handle.list() on a folder manipulator, for every order in which the host
\* may enumerate the folder
FolderList ==
    /\ nCalls < MaxCalls /\ handle.kind = "folder"
    /\ \E enum \in Enumerations(iterdir(disk, handle.path)) :
          LET r == FolderManipulator_list(disk, handle, enum)
          IN  Call("list", enum, FALSE, r, handle, r.ret)

NextOps ==
    \/ \E p \in ReqPaths, kind \in {"file", "folder"} : Bind(p, kind)
    \/ \E p \in ReqPaths, force \in BOOLEAN : FileCreate(p, force)
    \/ \E p \in ReqPaths, force \in BOOLEAN : FolderCreate(p, force)
    \/ \E dst \in ReqPaths, overwrite \in BOOLEAN : FileCopy(dst, overwrite)
    \/ \E dst \in ReqPaths : FileMove(dst)
    \/ FileRemove
    \/ \E dst \in ReqPaths, overwrite \in BOOLEAN : FolderCopy(dst, overwrite)
    \/ \E dst \in ReqPaths : FolderMove(dst)
    \/ FolderRemove
    \/ FolderList
    \/ MakeTemporary
    \/ \E p \in ReqPaths : Reset(p)
    \/ \E p \in ReqPaths : UserMkdir(p)
    \/ \E p \in ReqPaths : UserTouch(p)
    \/ \E p \in ReqPaths : UserRemove(p)

SpecOps == InitOps /\ [][NextOps]_vars


(* ---------------- fstools: the parts of a file name ---------------- *)

\* a file name is the sequence of its characters
NameChars == {"s", "t", "."}
FileNames ==
    UNION { [1..n -> NameChars] : n \in 1..MaxName } \ { <<".">>, <<".", ".">> }

\* str.rfind(c): the last position of c in s, 0 when c is not in s
rfind(s, c) ==
    IF \A i \in 1..Len(s) : s[i] # c THEN 0
    ELSE CHOOSE i \in 1..Len(s) : s[i] = c /\ \A j \in (i + 1)..Len(s) : s[j] # c

\* FileManipulator.pure_name: the target up to its last dot
pure_name(h) ==
    LET t == target(h)[1]
    IN  IF rfind(t, ".") = 0 THEN t ELSE SubSeq(t, 1, rfind(t, ".") - 1)

\* FileManipulator(name) over a file of the working directory
InitNames ==
    /\ caseSensitive \in BOOLEAN
    /\ disk = [k \in DiskKeys |-> "absent"]
    /\ folders = <<>>
    /\ files = <<>>
    /\ force_remove = FALSE
    /\ pc = "idle"
    /\ cleanup_queue = <<>>
    /\ cleanup_idx = 0
    /\ cleanup_force = FALSE
    /\ last = Outcome("init", <<>>, "none", <<>>, FALSE)
    /\ made = {}
    /\ reached = {}
    /\ requested = {}
    /\ start_clean = FALSE
    /\ cleaned = FALSE
    /\ \E name \in FileNames :
          handle = [kind |-> "file", path |-> <<name>>, norm |-> Cwd \o <<name>>,
                    temp |-> FALSE, open |-> TRUE]
    /\ nCalls = 0
    /\ nUser = 0

\* handle.pure_name()
PureName ==
    /\ nCalls < 1
    /\ last' = Outcome("pure_name", target(handle)[1], "none", pure_name(handle), FALSE)
    /\ nCalls' = nCalls + 1
    /\ UNCHANGED <<caseSensitive, disk, folders, files, force_remove, pc, cleanup_queue,
                   cleanup_idx, cleanup_force, made, reached, requested, start_clean,
                   cleaned, handle, nUser>>

NextNames == PureName

SpecNames == InitNames /\ [][NextNames]_vars


(* ---------------- fstools: the content of a folder ---------------- *)

\* FolderManipulator.is_empty: the exceptions the call can end with.  len() of
\* the generator iterdir() answers raises TypeError; where iterdir() opens the
\* folder before it answers, a path that is no folder raises OSError first,
\* which is_empty turns into EFailedToManipulate
FolderManipulator_is_empty(d, h) ==
    {"TypeError"} \cup (IF IsDir(d, h.path) THEN {} ELSE {"EFailedToManipulate"})

\* FolderManipulator.rmdir: answers [disk, err]; a missing sub-folder is an
\* error unless ignore_not_exists; for one that is there is_empty is asked
\* first, and the exception e it ends with leaves the call
FolderManipulator_rmdir(d, h, folder_name, ignore_not_empty, ignore_not_exists, e) ==
    LET full_sub_path == h.norm \o <<folder_name>>
    IN  IF ~Exists(d, full_sub_path)
        THEN [disk |-> d,
              err |-> IF ~ignore_not_exists THEN "EFailedToManipulate" ELSE "none"]
        ELSE [disk |-> d, err |-> e]

\* self.path / folder_name: pathlib joins the parts of the name to the path
\* and leaves the parts "." out; a name is given as the sequence of the parts
\* between its separators
JoinPath(p, folder_name) ==
    LET kept(n) == n # "."
    IN  p \o SelectSeq(folder_name, kept)

\* os.path.split(str(path))[1]: the last part, "." for the empty path
LastPart(p) == IF p = <<>> THEN "." ELSE p[Len(p)]

\* FolderManipulator.mkdir: answers [disk, err, ret]; the name is accepted
\* when the last part of the joined path equals it, letter case ignored
FolderManipulator_mkdir(d, h, folder_name, ignore_existence) ==
    LET subfolder == JoinPath(h.path, folder_name)
    IN  IF Lower(<<LastPart(subfolder)>>) # Lower(folder_name)
        THEN [disk |-> d, err |-> "EFailedToManipulate", ret |-> NoHandle]
        ELSE IF PathExists(d, subfolder) /\ ~ignore_existence
        THEN [disk |-> d, err |-> "EFailedToManipulate", ret |-> NoHandle]
        ELSE LET m == IF PathExists(d, subfolder) THEN [disk |-> d, err |-> "none"]
                      ELSE IF HasDotDot(subfolder) THEN [disk |-> d, err |-> "OSError"]
                      ELSE mkdir(d, subfolder)
                 r == PathManipulator(m.disk, subfolder, "folder")
             IN  IF m.err # "none" \/ r.err # "none"
                 THEN [disk |-> m.disk, err |-> "EFailedToManipulate", ret |-> NoHandle]
                 ELSE [disk |-> m.disk, err |-> "none", ret |-> r.handle]

\* fnmatch of a name against "*.*": the name has a dot in it
HasDot(n) == n \in {"d.x", "f.x", "g.x"}

\* Path.glob("*.*") / Path.glob("**/*.*"): the entries of the folder, or of
\* the whole tree below it, whose name matches, whatever their kind
glob(d, p, recoursive) ==
    { k \in Below(d, Key(p)) :
        /\ recoursive \/ Len(k) = Len(Key(p)) + 1
        /\ HasDot(k[Len(k)]) }

\* FolderManipulator.files: answers [disk, err, ret]; found is the list glob
\* yields, ret the file manipulators built over its members
FolderManipulator_files(d, h, recoursive, found) ==
    IF ~exists(d, h) THEN [disk |-> d, err |-> "EFailedToManipulate", ret |-> <<>>]
    ELSE [disk |-> d, err |-> "none",
          ret |-> [i \in 1..Len(found) |->
                     PathManipulator(d, h.path \o SubSeq(found[i], Len(Key(h.path)) + 1,
                                                         Len(found[i])),
                                     "file").handle]]

(* ---------------- the state machine of a folder's content ---------------- *)

\* the tree the folder operations are run on: a folder with sub-folders and
\* files, some of them with a dot in their name
TreePaths ==
    { <<"a">>, <<"a", "b">>, <<"a", "c">>, <<"a", "d.x">>, <<"a", "f.x">>,
      <<"a", "b", "g.x">> }
TreeKeys == { AbsPath(p) : p \in TreePaths }
\* the folders a manipulator is bound to
TreeFolders == { <<"a">>, <<"a", "b">> }

StagedTrees ==
    { d \in [TreeKeys -> Kinds] :
        \A k \in TreeKeys : d[k] # "absent" => IsDir(d, Parent(k)) }

\* no manipulator yet, over a staged tree
InitFolder ==
    /\ caseSensitive \in BOOLEAN
    /\ disk \in StagedTrees
    /\ folders = <<>>
    /\ files = <<>>
    /\ force_remove = FALSE
    /\ pc = "idle"
    /\ cleanup_queue = <<>>
    /\ cleanup_idx = 0
    /\ cleanup_force = FALSE
    /\ last = Outcome("init", <<>>, "none", <<>>, FALSE)
    /\ made = {}
    /\ reached = {}
    /\ requested = {}
    /\ start_clean = FALSE
    /\ cleaned = FALSE
    /\ handle = NoHandle
    /\ nCalls = 0
    /\ nUser = 0

\* the names passed for an entry of the folder
TreeNames == {"b", "c", "d.x", "f.x"}

\* handle.rmdir(name, ignore_not_empty, ignore_not_exists)
FolderRmdir(name, ignore_not_empty, ignore_not_exists) ==
    /\ nCalls < MaxCalls /\ handle.kind = "folder"
    /\ \E e \in FolderManipulator_is_empty(
                   disk, PathManipulator(disk, handle.norm \o <<name>>, "folder").handle) :
          LET r == FolderManipulator_rmdir(disk, handle, name, ignore_not_empty,
                                           ignore_not_exists, e)
          IN  Call("rmdir", name,
                   [ignore_not_empty |-> ignore_not_empty,
                    ignore_not_exists |-> ignore_not_exists], r, handle, <<>>)

\* the names passed to mkdir: plain names, "..", "." and a name with a
\* separator in it
MkdirNames == { <<"b">>, <<"c">>, <<"f.x">>, <<"..">>, <<".">>, <<"b", "g.x">> }

\* handle.mkdir(name, ignore_existence)
FolderMkdir(name, ignore_existence) ==
    /\ nCalls < MaxCalls /\ handle.kind = "folder"
    /\ LET r == FolderManipulator_mkdir(disk, handle, name, ignore_existence)
       IN  Call("mkdir", name, ignore_existence, r, handle, r.ret)

\* handle.files(recoursive)
FolderFiles(recoursive) ==
    /\ nCalls < MaxCalls /\ handle.kind = "folder"
    /\ \E found \in Enumerations(glob(disk, handle.path, recoursive)) :
          LET r == FolderManipulator_files(disk, handle, recoursive, found)
          IN  Call("files", <<>>, recoursive, r, handle, r.ret)

NextFolder ==
    \/ \E p \in TreeFolders : Bind(p, "folder")
    \/ FolderList
    \/ \E recoursive \in BOOLEAN : FolderFiles(recoursive)
    \/ \E name \in MkdirNames, ignore_existence \in BOOLEAN :
          FolderMkdir(name, ignore_existence)
    \/ \E name \in TreeNames, ine \in BOOLEAN, inex \in BOOLEAN :
          FolderRmdir(name, ine, inex)
    \/ \E p \in TreeFolders : UserRemove(p)

SpecFolder == InitFolder /\ [][NextFolder]_vars

(* ---------------- properties of the manager ---------------- *)

\* the cleanup that ran last has returned or has been left by an exception
CleanupEnded == pc = "idle" /\ last.op \in {"cleanup_begin", "cleanup_remove"}
\* the cleanup that ran last has returned
CleanupReturned == CleanupEnded /\ last.err = "none"
\* the folder x lies inside the folder y on the disk
NestedIn(x, y) == IsStrictPrefix(Key(y), Key(x))

\* the path is tracked as a folder: compared as absolute path, without case
IsTrackedFolder(fo, p) == \E i \in 1..Len(fo) : Lower(fo[i]) = Lower(AbsPath(p))

\* C1: cleanup removes the tracked folders in an order that respects
\* containment: no folder of the removal queue stands before a folder nested
\* inside it, so that a cleanup that began with every tracked folder on disk
\* and nothing but tracked content in them raises no error and leaves no
\* tracked folder on disk.
C1_CleanupOrder ==
    /\ \A i, j \in 1..Len(cleanup_queue) :
          i < j => ~NestedIn(cleanup_queue[j], cleanup_queue[i])
    /\ (CleanupEnded /\ start_clean) =>
          /\ last.err = "none"
          /\ \A i \in 1..Len(folders) : ~Exists(disk, folders[i])

\* a cleanup of nested tracked folders has removed the inner one first
C1_Witness ==
    /\ CleanupReturned /\ start_clean
    /\ \E i, j \in 1..Len(cleanup_queue) :
          i < j /\ NestedIn(cleanup_queue[i], cleanup_queue[j])

\* no two of the requested paths, nor of their parent folders, differ in
\* letter case only
WithParents(P) == P \cup { Parent(p) : p \in P }
NoCaseVariants(P) ==
    \A p, q \in WithParents(P) : Lower(p) = Lower(q) => p = q

\* C2 as claimed: with nothing done on the disk behind the manager's back, the
\* paths passed to get_folder and track_file exist while the scope is open and
\* none of them exists once the cleanup of the scope is over.
C2_Claimed ==
    (nUser = 0 /\ pc = "idle") =>
        /\ ~cleaned => \A p \in requested : Exists(disk, p)
        /\ CleanupEnded => \A p \in requested : ~Exists(disk, p)

\* C2 as amended: the same, on a host that distinguishes letter case only for
\* paths that do not differ from each other, or from a parent folder of
\* another, in letter case only.
C2_ScopedPaths ==
    (caseSensitive => NoCaseVariants(requested)) => C2_Claimed

\* a scope that asked for a file in a folder that was missing has been left
C2_Witness ==
    /\ nUser = 0 /\ CleanupReturned
    /\ caseSensitive => NoCaseVariants(requested)
    /\ Len(folders) > 0
    /\ \E p \in requested : ~IsTrackedFolder(folders, p)

C4_Claimed ==
    (CleanupEnded /\ cleanup_force /\ force_remove) =>
        \A m \in made : ~IsDir(disk, m)

\* C5: after cleanup returns, the tracked folders and the tracked files are
\* both empty.
C5_Claimed ==
    CleanupReturned => folders = <<>> /\ files = <<>>

\* C6: get_folder on a tracked path returns the handle registered earlier
\* and changes neither the tracked folders nor the disk, and no two tracked
\* folders have the same absolute path up to letter case.
C6_GetFolderIdempotent ==
    [][ /\ \A i, j \in 1..Len(folders') :
              Lower(folders'[i]) = Lower(folders'[j]) => i = j
        /\ (nCalls' = nCalls + 1 /\ last'.op = "get_folder"
                /\ IsTrackedFolder(folders, last'.arg)) =>
              /\ last'.err = "none"
              /\ last'.ret \in Range(folders)
              /\ Lower(last'.ret) = Lower(AbsPath(last'.arg))
              /\ folders' = folders /\ files' = files /\ disk' = disk ]_vars

\* get_folder has been called with a case variant of a tracked path
C6_Witness ==
    /\ last.op = "get_folder" /\ last.flag
    /\ last.ret # AbsPath(last.arg)
    /\ Len(folders) > 1

\* C7: after track_file(p) returns, p is on disk, its parent folder is on
\* disk, and p is recorded exactly once in the tracked files; stated for the
\* calls whose paths, on a host that distinguishes letter case, do not differ
\* in letter case only.
C7_Claimed ==
    (last.op = "track_file" /\ last.err = "none"
        /\ (caseSensitive => NoCaseVariants(requested))) =>
        /\ Exists(disk, last.arg)
        /\ IsDir(disk, Parent(AbsPath(last.arg)))
        /\ Cardinality({ i \in 1..Len(files) : compare_paths(files[i], last.arg) }) = 1

\* no two entries of the disk have names that differ in letter case only
NoCaseTwins(d) ==
    \A k1, k2 \in DOMAIN d :
        (d[k1] # "absent" /\ d[k2] # "absent" /\ Lower(k1) = Lower(k2)) => k1 = k2

\* C8: is_temporary(p) is true exactly when p is a regular file recorded by
\* track_file or a folder the manager made, paths compared without case;
\* stated for the disks that hold no two names differing in letter case only.
C8_Claimed ==
    NoCaseTwins(disk) =>
        \A p \in ReqPaths :
            is_temporary(disk, folders, files, p) <=>
                \/ IsFile(disk, p) /\ \E f \in Range(files) : Lower(f) = Lower(AbsPath(p))
                \/ IsDir(disk, p) /\ \E m \in made : Lower(m) = Lower(AbsPath(p))

\* C9: when the removal loop of cleanup comes to a tracked folder that holds
\* untracked entries, force_remove decides: set, the folder goes with all
\* that is in it; not set, the cleanup ends with an error and the disk stays
\* as it was.
C9_ForceRemove ==
    [][ (pc = "cleanup"
            /\ \E c \in Below(disk, Key(cleanup_queue[cleanup_idx + 1])) :
                    ~TrackedFolderKey(folders, c)) =>
          LET path == cleanup_queue[cleanup_idx + 1]
          IN  IF cleanup_force
              THEN /\ last'.err = "none"
                   /\ ~Exists(disk', path)
                   /\ Below(disk', Key(path)) = {}
              ELSE /\ last'.err = "OSError"
                   /\ pc' = "idle"
                   /\ disk' = disk ]_vars

\* a forced cleanup has removed a folder that held untracked entries
C9_Witness ==
    /\ last.op = "cleanup_remove" /\ last.flag
    /\ cleanup_force /\ last.err = "none"

(* ---------------- properties of the temporary manipulators ---------------- *)

\* C10: once the with statement of a manipulator answered by
\* FileManipulator.temp(p) or FolderManipulator.temp(p) has been left, p is
\* not on disk.
C10_Claimed ==
    last.op = "exit" => ~Exists(disk, last.arg)

(* ---------------- properties of the manipulators ---------------- *)

\* the step is a call of the manipulators' interface named op
IsCall(op) == nCalls' = nCalls + 1 /\ last'.op = op

\* C11: FileManipulator.create(path, force_create) on a path that is no
\* folder succeeds and answers a manipulator whose file is on disk whenever
\* the parent folder is there, or force_create is set and no regular file
\* stands in the way of the parents.
C11_Claimed ==
    [][ (IsCall("file_create") /\ ~IsDir(disk, last'.arg)
            /\ \/ IsDir(disk, Parent(AbsPath(last'.arg)))
               \/ last'.flag /\ \A q \in Chain(Parent(AbsPath(last'.arg))) : ~IsFile(disk, q)) =>
          /\ last'.err = "none"
          /\ IsFile(disk', last'.arg)
          /\ handle'.norm = Lower(AbsPath(last'.arg)) ]_vars

\* C12: FileManipulator.create and FolderManipulator.create with
\* force_create not set, on a path whose parent folder is not on disk, raise
\* EFailedToInitialize and leave the disk as it was.
C12_CreateUnforced ==
    [][ ((IsCall("file_create") \/ IsCall("folder_create")) /\ ~last'.flag
            /\ ~Exists(disk, Parent(AbsPath(last'.arg)))) =>
          /\ last'.err = "EFailedToInitialize"
          /\ disk' = disk
          /\ handle' = handle ]_vars

\* an unforced create of a folder under a missing parent has been refused
C12_Witness ==
    /\ last.op = "folder_create" /\ ~last.flag
    /\ last.err = "EFailedToInitialize"
    /\ ~Exists(disk, Parent(AbsPath(last.arg)))
    /\ ~Exists(disk, last.arg)

\* the manipulator the caller holds is bound to an entry of that kind which is
\* on disk under the path as given and under its normalized form
Bound(kind) ==
    /\ handle.kind = kind
    /\ exists(disk, handle)
    /\ IF kind = "file" THEN IsFile(disk, handle.path) ELSE IsDir(disk, handle.path)

\* C13: on a file manipulator, copy(dst, overwrite) into a folder dst other
\* than the file's own raises EFailedToManipulate and changes nothing when
\* dst holds a file of the same name and overwrite is not set, and otherwise
\* succeeds and leaves the copy in dst.
C13_Claimed ==
    [][ (IsCall("copy") /\ Bound("file") /\ IsDir(disk, last'.arg)
            /\ Key(CopyTarget(disk, handle.norm, last'.arg)) # Key(handle.path)
            /\ ~IsDir(disk, CopyTarget(disk, handle.norm, last'.arg))) =>
          IF IsFile(disk, CopyTarget(disk, handle.norm, last'.arg)) /\ ~last'.flag
          THEN last'.err = "EFailedToManipulate" /\ disk' = disk
          ELSE last'.err = "none"
                  /\ IsFile(disk', CopyTarget(disk, handle.norm, last'.arg)) ]_vars

\* C14: a copy of a file into a folder that holds no entry of its name
\* answers a manipulator whose normalized path is the lower-cased absolute
\* path of the destination joined with the name of the source, which is on
\* disk, and leaves the source file and the source manipulator as they were.
C14_Claimed ==
    [][ (IsCall("copy") /\ Bound("file") /\ IsDir(disk, last'.arg)
            /\ ~Exists(disk, CopyTarget(disk, handle.norm, last'.arg))) =>
          /\ last'.err = "none"
          /\ last'.ret = Lower(AbsPath(last'.arg) \o target(handle))
          /\ Exists(disk', last'.ret)
          /\ handle' = handle
          /\ IsFile(disk', handle.path) ]_vars

\* C15: move(dst) of a file or folder manipulator to a path that is not on
\* disk, in a folder that is, succeeds; afterwards the normalized path of the
\* manipulator is the lower-cased absolute path of dst, exists() is true and
\* the source path is not on disk.
C15_Claimed ==
    [][ (IsCall("move") /\ (Bound("file") \/ Bound("folder"))
            /\ ~Exists(disk, last'.arg) /\ IsDir(disk, Parent(AbsPath(last'.arg)))
            /\ ~IsStrictPrefix(Key(handle.path), Key(last'.arg))) =>
          /\ last'.err = "none"
          /\ handle'.norm = Lower(AbsPath(last'.arg))
          /\ exists(disk', handle')
          /\ ~Exists(disk', handle.path) ]_vars

\* C16: move(dst) of a file or folder manipulator to a path that is on disk
\* raises EFailedToManipulate and leaves the disk and the manipulator as they
\* were.
C16_Claimed ==
    [][ (IsCall("move") /\ (Bound("file") \/ Bound("folder"))
            /\ Exists(disk, last'.arg)) =>
          /\ last'.err = "EFailedToManipulate"
          /\ disk' = disk
          /\ handle' = handle ]_vars

\* C17: remove() of a folder manipulator whose folder is on disk returns, and
\* afterwards the folder and all below it are not on disk and exists() is
\* false.
C17_Claimed ==
    [][ (IsCall("remove") /\ Bound("folder")) =>
          /\ last'.err = "none"
          /\ ~Exists(disk', handle.path)
          /\ Below(disk', Key(handle.path)) = {}
          /\ ~exists(disk', handle') ]_vars

\* C18: copy, move, remove and list of a manipulator whose path is not on
\* disk raise EFailedToManipulate and leave the disk as it was; and remove()
\* of a file manipulator whose file is on disk returns and leaves exists()
\* false.
C18_Claimed ==
    [][ /\ ((IsCall("copy") \/ IsCall("move") \/ IsCall("remove") \/ IsCall("list"))
                /\ ~Exists(disk, handle.path)) =>
              last'.err = "EFailedToManipulate" /\ disk' = disk
        /\ (IsCall("remove") /\ Bound("file")) =>
              last'.err = "none" /\ ~exists(disk', handle') ]_vars

\* C19: no operation returns normally, with no result, after a failure of the
\* file system underneath: a temp() call that raised nothing has answered a
\* manipulator.
C19_Claimed ==
    (last.op = "temp" /\ last.err = "none") => handle.kind # "none"

\* C20: leaving the with statement of a temporary manipulator never raises.
C20_Claimed ==
    last.op = "exit" => last.err = "none"

(* ---------------- properties of the file names ---------------- *)

\* the part of a name before its first dot, the whole name without a dot
BeforeFirstDot(t) ==
    IF \A i \in 1..Len(t) : t[i] # "." THEN t
    ELSE SubSeq(t, 1, (CHOOSE i \in 1..Len(t) :
                          t[i] = "." /\ \A j \in 1..(i - 1) : t[j] # ".") - 1)

\* C21: pure_name() answers the part of target() before its first dot, and
\* the whole name when the name has no dot
C21_Claimed ==
    last.op = "pure_name" => last.ret = BeforeFirstDot(last.arg)

(* ---------------- properties of a folder's content ---------------- *)

\* the sequence s holds every element of the set S once and nothing else
ListsOnce(s, S) ==
    /\ Len(s) = Cardinality(S)
    /\ \A x \in S : \E i \in 1..Len(s) : s[i] = x

\* the position of the entry x in the enumeration enum
PlaceIn(enum, x) == CHOOSE i \in 1..Len(enum) : enum[i] = x

\* C22: a list() that returns answers the immediate children of the folder,
\* each once, a folder manipulator for a directory and a file manipulator for
\* a file, every directory before every file, and each of the two groups in
\* the order of the host's enumeration; it returns whenever the folder is on
\* disk under the path and the normalized path of the manipulator
C22_ListOrder ==
    [][ IsCall("list") =>
          LET ret == last'.ret
              enum == last'.arg
              key(i) == Key(ret[i].path)
          IN  /\ (IsDir(disk, handle.path) /\ exists(disk, handle)) => last'.err = "none"
              /\ last'.err = "none" =>
                   /\ ListsOnce([i \in 1..Len(ret) |-> key(i)], iterdir(disk, handle.path))
                   /\ \A i \in 1..Len(ret) :
                        /\ ret[i].kind = (IF IsDir(disk, ret[i].path) THEN "folder" ELSE "file")
                        /\ Parent(ret[i].path) = handle.path
                   /\ \A i, j \in 1..Len(ret) :
                        (ret[i].kind = "file" /\ ret[j].kind = "folder") => j < i
                   /\ \A i, j \in 1..Len(ret) :
                        (ret[i].kind = ret[j].kind /\ i < j)
                           => PlaceIn(enum, key(i)) < PlaceIn(enum, key(j)) ]_vars

\* a list() has answered two directories and two files which the host
\* enumerated with a file first and a directory last
C22_Witness ==
    /\ last.op = "list" /\ last.err = "none" /\ Len(last.ret) = 4
    /\ Cardinality({ i \in 1..4 : last.ret[i].kind = "folder" }) = 2
    /\ IsFile(disk, last.arg[1]) /\ IsDir(disk, last.arg[4])

(* ---------------- properties of the folder manipulators ---------------- *)

\* C23: a folder copy into a destination that holds an entry with the
\* folder's name raises EFailedToManipulate and changes nothing when overwrite
\* is not set, and with overwrite set returns a manipulator bound to
\* destination/target
C23_Claimed ==
    [][ (IsCall("copy") /\ Bound("folder"))
          => LET to == AbsPath(last'.arg) \o target(handle)
             IN  Exists(disk, to) =>
                   IF last'.flag
                   THEN last'.err = "none" /\ last'.ret = Lower(to)
                   ELSE last'.err = "EFailedToManipulate" /\ disk' = disk ]_vars

\* C24: rmdir follows its flags: a sub-folder that is there goes with all its
\* content when it is empty or ignore_not_empty is set, and otherwise stays
\* with EFailedToManipulate raised; a missing name raises EFailedToManipulate
\* unless ignore_not_exists is set, and then nothing happens
C24_Claimed ==
    [][ (IsCall("rmdir") /\ Bound("folder"))
          => LET sub == handle.path \o <<last'.arg>>
                 flags == last'.flag
             IN  /\ (~Exists(disk, sub) /\ flags.ignore_not_exists)
                       => last'.err = "none" /\ disk' = disk
                 /\ (~Exists(disk, sub) /\ ~flags.ignore_not_exists)
                       => last'.err = "EFailedToManipulate" /\ disk' = disk
                 /\ (IsDir(disk, sub) /\ (iterdir(disk, sub) = {} \/ flags.ignore_not_empty))
                       => last'.err = "none" /\ disk' = rmtree(disk, sub).disk
                 /\ (IsDir(disk, sub) /\ iterdir(disk, sub) # {} /\ ~flags.ignore_not_empty)
                       => last'.err = "EFailedToManipulate" /\ disk' = disk ]_vars

\* C25: for every name, mkdir raises EFailedToManipulate or answers a
\* manipulator bound to the entry of this folder that carries the name; it
\* raises when that entry is there already and ignore_existence is not set
C25_Claimed ==
    [][ (IsCall("mkdir") /\ Bound("folder"))
          => LET ret == last'.ret
                 name == last'.arg
             IN  /\ \/ last'.err = "EFailedToManipulate"
                    \/ /\ last'.err = "none"
                       /\ Len(name) = 1
                       /\ ret.norm = Lower(AbsPath(handle.path) \o name)
                       /\ Exists(disk', ret.norm)
                 /\ (Len(name) = 1 /\ Exists(disk, handle.path \o name) /\ ~last'.flag)
                       => last'.err = "EFailedToManipulate" ]_vars

\* C26: files() answers manipulators of regular files only: the files of the
\* folder with a dot in their name, and with the flag set such files at every
\* depth below it
C26_Claimed ==
    [][ (IsCall("files") /\ Bound("folder"))
          => /\ last'.err = "none"
             /\ { Key(m.path) : m \in Range(last'.ret) }
                  = { k \in Below(disk, Key(handle.path)) :
                        /\ disk[k] = "file"
                        /\ last'.flag \/ Len(k) = Len(Key(handle.path)) + 1
                        /\ HasDot(k[Len(k)]) }
             /\ \A m \in Range(last'.ret) : m.kind = "file" /\ IsFile(disk, m.path) ]_vars

(* ---------------- properties of a manipulator's paths ---------------- *)

\* C29: the normalized path of a manipulator is the absolute path of its path
\* in lower case in every state, and a reset to a path that is not on disk
\* raises EFailedToManipulate and leaves the path and the normalized path as
\* they were
C29_Claimed ==
    /\ handle.kind # "none" => handle.norm = Lower(AbsPath(handle.path))
    /\ (last.op = "reset" /\ last.err = "EFailedToManipulate" /\ ~Exists(disk, last.arg))
          => handle.norm = last.ret

\* C30: exists() of a manipulator built over a path is true for as long as
\* that path is on disk, upper-case letters in the path and a host that
\* distinguishes letter case included
C30_Claimed ==
    (/\ handle.kind # "none"
     /\ handle.norm = Lower(AbsPath(handle.path))
     /\ Exists(disk, handle.path))
        => exists(disk, handle)

(* ---------------- properties of the ordering loop of cleanup ---------------- *)

\* C28: the ordering loop of cleanup makes progress: among the folders still
\* to be ordered there is always one with no other of them nested in it, so
\* the assertion holds in every round; the loop ends, and the removal queue
\* holds every tracked folder exactly once
C28_SortProgress ==
    /\ folders # <<>> => NotParent(folders) # 0
    /\ last.op = "cleanup_begin" =>
         /\ last.err = "none"
         /\ Len(cleanup_queue) = Len(folders)
         /\ \A i \in 1..Len(folders) :
               Cardinality({ j \in 1..Len(cleanup_queue) : cleanup_queue[j] = folders[i] }) = 1

\* the loop has ordered three folders nested in one another that were tracked
\* outermost first
C28_Witness ==
    /\ last.op = "cleanup_begin" /\ Len(folders) = 3
    /\ is_subfolder(folders[2], folders[1]) /\ is_subfolder(folders[3], folders[2])
    /\ cleanup_queue = Reverse(folders)

(* ---------------- properties of a folder move ---------------- *)

====
